---- MODULE Spec2Model ----
(***************************************************************************)
(* Consistency layer of the social backend: the posts repository with its  *)
(* version-stamped update, the users repository with its transactional     *)
(* flows (register+invite, activate+cleanup, delete+cleanup) run through   *)
(* withTx at READ COMMITTED isolation, and the follower relation.          *)
(* Every store statement is one atomic step; the workers of concurrent     *)
(* requests interleave between statements.                                 *)
(***************************************************************************)
EXTENDS Integers, FiniteSets, Sequences, TLC

\* ------------------------------------------------------------------ bounds
Workers == {1, 2}
NumPosts == 1
MaxRequests == 3
PostIds == 1 .. NumPosts
MissingPostId == NumPosts + 1
\* registrations, users requests and clock ticks the model follows
MaxUsers == 2
MaxUserRequests == 3
\* store calls that fail in the driver
MaxFailures == 1
\* follow and unfollow requests
MaxFollowRequests == 3
\* keyed user reads and the ticks of the cache clock
MaxCacheReads == 2
MaxCacheTime == 3
MaxCacheDeletes == 1
\* cache.UserExpTime in clock ticks
UserExpTime == 2
\* requests the limiter is asked about, and how far its clock runs
MaxLimiterRequests == 4
MaxLimiterTime == 3
\* config.rateLimiter: the budget of a window, and the window in clock ticks
RequestsPerTimeFrame == 2
TimeFrame == 2
\* posts in the table the feed reads, and feed requests
MaxFeedPosts == 2
MaxFeedRequests == 1
MaxComments == 2
MaxTokenRequests == 2
MaxMailRequests == 3
MaxRetries == 3
\* the handler's default page size, and validate:"max=5" of Tags
DefaultLimit == 20
MaxTags == 5
\* payload values: 0 is the value a post is seeded with, NoField an absent
\* (nil) field of the PATCH payload
Texts == {1, 2}
NoField == -1
InitText == 0
InitVersion == 0

\* ------------------------------------------------------------------ errors
Nil == "nil"
ErrNotFound == "ErrNotFound"
ErrConflict == "ErrConflict"
ErrDuplicateEmail == "ErrDuplicateEmail"
ErrDuplicateUsername == "ErrDuplicateUsername"
\* any driver error the repository does not classify (timeout, lost
\* connection, cancelled context)
StoreError == "StoreError"

VARIABLES
    posts,        \* posts table: id -> [title, content, version]
    pw,           \* per worker: the posts request it is serving
    requests,     \* number of posts requests started
    nilReturns,   \* history: per post id, UpdateById calls that returned nil
    users,        \* committed rows of the users table
    invitations,  \* committed rows of the user_invitations table
    usersSeq,     \* last value of the users id sequence
    uuidSeq,      \* number of invitation tokens generated so far
    now,          \* the clock
    uw,           \* per worker: the users request it is serving
    userRequests, \* number of users requests started
    failures,     \* number of store calls that failed in the driver
    spent,        \* history: tokens of an Activate that returned nil
    refused,      \* history: tokens of a CreateAndInvite that returned an error
    followers,    \* followers table: followed user id -> rows (user_id, CurrentUserId)
    fw,           \* per worker: the follow or unfollow request it is serving
    followRequests, \* number of follow and unfollow requests started
    rdb,          \* the redis keys "user-<id>": id -> entry or NoEntry
    ctime,        \* the clock of the cache
    cr,           \* per worker: the keyed user read it is serving
    cacheReads,   \* number of keyed user reads started
    deletedAt,    \* history: user id -> time its row was deleted, or Never
    clients,      \* the limiter's map: caller key -> counter and window start
    mu,           \* the worker inside the limiter, or NoWorker
    ltime,        \* the clock of the limiter
    lr,           \* per worker: the request the middleware is deciding
    limiterRequests, \* number of requests that reached the middleware
    trace,        \* history: the limiter's decisions in order
    served,       \* number of requests that reached their handler
    postRows,     \* posts table as the feed reads it: id -> author, time, tags
    comments,     \* comments table: post id -> number of rows with that post_id
    tw,           \* per worker: the token request it is serving
    tokenRequests, \* number of token requests started
    mw,           \* per worker: the Send call it is in
    mailRequests, \* number of Send calls started
    fr,           \* per worker: the feed request it is serving
    feedRequests  \* number of feed requests started

postVars == <<posts, pw, requests, nilReturns>>
followVars == <<followers, fw, followRequests>>
userVars == <<users, invitations, usersSeq, uuidSeq, now, uw, userRequests,
              failures, spent, refused>>
cacheVars == <<rdb, ctime, cr, cacheReads, deletedAt>>
limiterVars == <<clients, mu, ltime, lr, limiterRequests, trace, served>>
feedVars == <<postRows, comments, fr, feedRequests>>
tokenVars == <<tw, tokenRequests>>
mailVars == <<mw, mailRequests>>
vars == <<posts, pw, requests, nilReturns, users, invitations, usersSeq,
          uuidSeq, now, uw, userRequests, failures, spent, refused,
          followers, fw, followRequests, rdb, ctime, cr, cacheReads, deletedAt,
          limiterVars, feedVars, tokenVars, mailVars>>

\* what the actions of one part of the system leave alone
exceptPosts == <<userVars, followVars, cacheVars, limiterVars, feedVars,
                 tokenVars, mailVars>>
exceptUsers == <<postVars, followVars, cacheVars, limiterVars, feedVars,
                 tokenVars, mailVars>>
exceptFollow == <<postVars, userVars, cacheVars, limiterVars,
                  feedVars, tokenVars, mailVars>>

\* ------------------------------------------------------------------ posts
NoPost == [id |-> 0, title |-> InitText, content |-> InitText, version |-> 0]

IdlePw ==
    [pc |-> "idle", post |-> NoPost,
     payload |-> [title |-> NoField, content |-> NoField], expected |-> 0,
     err |-> Nil, status |-> 0]

InitPosts ==
    /\ posts = [i \in PostIds |->
                  [title |-> InitText, content |-> InitText, version |-> InitVersion]]
    /\ pw = [p \in Workers |-> IdlePw]
    /\ requests = 0
    /\ nilReturns = [i \in PostIds \cup {MissingPostId} |-> 0]

\* GetById: SELECT ... FROM posts WHERE id = $1
GetById(id) ==
    IF id \in DOMAIN posts
    THEN [id |-> id, title |-> posts[id].title, content |-> posts[id].content,
          version |-> posts[id].version]
    ELSE NoPost

\* postsContextMiddleware: loads the post of the URL into the request context,
\* or answers 404 / 500 and ends the request
postsContextMiddleware(p) ==
    /\ pw[p].pc = "idle"
    /\ requests < MaxRequests
    /\ requests' = requests + 1
    /\ \E id \in PostIds \cup {MissingPostId}, failed \in BOOLEAN :
         pw' = [pw EXCEPT ![p] =
                  IF failed
                  THEN [IdlePw EXCEPT !.pc = "done", !.err = StoreError, !.status = 500]
                  ELSE IF id \notin DOMAIN posts
                  THEN [IdlePw EXCEPT !.pc = "done", !.err = ErrNotFound, !.status = 404]
                  ELSE [IdlePw EXCEPT !.pc = "handler", !.post = GetById(id),
                                      !.expected = GetById(id).version]]
    /\ UNCHANGED <<posts, nilReturns>>
    /\ UNCHANGED exceptPosts

\* updatePostByIdHandler up to the repository call: the payload's fields are
\* copied into the post of the context.  The title is assigned from
\* *payload.Content: with a title and no content that is a nil dereference.
updatePostByIdHandler(p) ==
    /\ pw[p].pc = "handler"
    /\ \E title \in Texts \cup {NoField}, content \in Texts \cup {NoField} :
         LET post1 == IF content # NoField
                      THEN [pw[p].post EXCEPT !.content = content]
                      ELSE pw[p].post
         IN  IF title # NoField /\ content = NoField
             THEN pw' = [pw EXCEPT ![p].pc = "done", ![p].status = 500,
                                   ![p].payload = [title |-> title,
                                                   content |-> content],
                                   ![p].err = "panic"]
             ELSE pw' = [pw EXCEPT ![p].pc = "update",
                                   ![p].payload = [title |-> title,
                                                   content |-> content],
                                   ![p].post = IF title # NoField
                                               THEN [post1 EXCEPT !.title = content]
                                               ELSE post1]
    /\ UNCHANGED <<posts, requests, nilReturns>>
    /\ UNCHANGED exceptPosts

\* the error UpdateById returns for the error the driver's Scan returned:
\* only sql.ErrNoRows is classified, every other error falls out of the
\* switch to "return nil"
UpdateByIdResult(scanErr) ==
    IF scanErr = "ErrNoRows" THEN ErrNotFound ELSE Nil

\* UpdateById: UPDATE posts SET title, content, version = version + 1
\*             WHERE id = $3 AND version = $4 RETURNING version
UpdateById(p) ==
    /\ pw[p].pc = "update"
    /\ LET post == pw[p].post
           matches == post.id \in DOMAIN posts /\ posts[post.id].version = post.version
       IN \E failed \in BOOLEAN :
            /\ posts' = IF ~failed /\ matches
                        THEN [posts EXCEPT ![post.id] =
                                [title |-> post.title, content |-> post.content,
                                 version |-> @.version + 1]]
                        ELSE posts
            /\ LET scanErr == IF failed THEN StoreError
                              ELSE IF matches THEN Nil ELSE "ErrNoRows"
                   err == IF scanErr = Nil THEN Nil ELSE UpdateByIdResult(scanErr)
               IN /\ pw' = [pw EXCEPT ![p].pc = "respond", ![p].err = err,
                                      ![p].post.version =
                                          IF scanErr = Nil THEN post.version + 1
                                          ELSE post.version]
                  /\ nilReturns' = IF err = Nil
                                   THEN [nilReturns EXCEPT ![post.id] = @ + 1]
                                   ELSE nilReturns
    /\ UNCHANGED requests
    /\ UNCHANGED exceptPosts

\* updatePostByIdHandler after the repository call
updatePostByIdRespond(p) ==
    /\ pw[p].pc = "respond"
    /\ pw' = [pw EXCEPT ![p].pc = "done",
                        ![p].status = IF pw[p].err # Nil THEN 500 ELSE 200]
    /\ UNCHANGED <<posts, requests, nilReturns>>
    /\ UNCHANGED exceptPosts

\* the error DeleteById returns for the driver's error and affected-row count
DeleteByIdResult(execErr, rows) ==
    IF execErr # Nil THEN execErr
    ELSE IF rows = 0 THEN ErrNotFound ELSE Nil

\* deletePostByIdHandler with DeleteById: DELETE FROM posts WHERE id = $1.
\* The route runs behind postsContextMiddleware, the id is the loaded post's.
deletePostByIdHandler(p) ==
    /\ pw[p].pc = "handler"
    /\ \E failed \in BOOLEAN :
         LET id == pw[p].post.id
             rows == IF id \in DOMAIN posts THEN 1 ELSE 0
             err == DeleteByIdResult(IF failed THEN StoreError ELSE Nil, rows)
         IN /\ posts' = IF failed \/ rows = 0 THEN posts
                        ELSE [i \in DOMAIN posts \ {id} |-> posts[i]]
            /\ pw' = [pw EXCEPT ![p].pc = "deleted", ![p].err = err,
                                ![p].status = IF err = Nil THEN 204
                                              ELSE IF err = ErrNotFound THEN 404
                                              ELSE 500]
    /\ UNCHANGED <<requests, nilReturns>>
    /\ UNCHANGED exceptPosts

\* the worker is free for the next request
postsRequestDone(p) ==
    /\ pw[p].pc \in {"done", "deleted"}
    /\ pw' = [pw EXCEPT ![p] = IdlePw]
    /\ UNCHANGED <<posts, requests, nilReturns>>
    /\ UNCHANGED exceptPosts

\* ------------------------------------------------------------------ users
Usernames == {1, 2}
Emails == {1, 2}
UserIds == 1 .. MaxUsers
\* an id no row ever gets
MissingUserId == MaxUsers + 1
\* app.config.mail.exp in clock ticks
InvitationExp == 1

\* sha256 + hex of a token: injective, and never the token itself
HashOffset == 100
Hash(token) == token + HashOffset

NoUser == [id |-> 0, username |-> 0, email |-> 0, is_active |-> FALSE]

\* the writes of an open transaction, invisible to the others until commit
NoTx == [insUsers |-> {}, insInv |-> {}, updUsers |-> {}, delUsers |-> {},
         delInv |-> {}]

IdleUw ==
    [req |-> "none", call |-> "none", pc |-> "idle", username |-> 0, email |-> 0,
     token |-> 0, id |-> 0, user |-> NoUser, tx |-> NoTx, fnCalls |-> 0,
     fnErr |-> Nil, err |-> Nil, outcome |-> "none", wrote |-> FALSE,
     dupEmail |-> FALSE, late |-> FALSE, absent |-> FALSE, mailErr |-> Nil,
     status |-> 0, written |-> 0]

InitUsers ==
    /\ users = {}
    /\ invitations = {}
    /\ usersSeq = 0
    /\ uuidSeq = 0
    /\ now = 0
    /\ uw = [p \in Workers |-> IdleUw]
    /\ userRequests = 0
    /\ failures = 0
    /\ spent = {}
    /\ refused = {}

\* what the statements of worker p's transaction see: the committed rows
\* with the transaction's own writes applied
UsersView(p) ==
    LET t == uw[p].tx
    IN  {r \in users \cup t.insUsers :
            r.id \notin t.delUsers /\ r.id \notin {u.id : u \in t.updUsers}}
        \cup {u \in t.updUsers : u.id \notin t.delUsers}

InvView(p) == (invitations \cup uw[p].tx.insInv) \ uw[p].tx.delInv

\* rows another open transaction has updated or deleted: a statement that
\* targets one of them waits for that transaction to end
LockedUsers(p) ==
    UNION {uw[q].tx.delUsers \cup {u.id : u \in uw[q].tx.updUsers} :
           q \in Workers \ {p}}

LockedInv(p) == UNION {uw[q].tx.delInv : q \in Workers \ {p}}

\* an insert that does not wait for an open transaction's insert of its key
PendingUsersNone(p) == {}

\* user rows another open transaction has inserted: an insert with the same
\* unique key waits for that transaction to end
PendingUsers(p) == UNION {uw[q].tx.insUsers : q \in Workers \ {p}}

\* the clock advances between statements; the model follows it while an
\* invitation, stored or being stored, can still expire
Tick ==
    /\ \E ui \in invitations \cup UNION {uw[q].tx.insInv : q \in Workers} :
         ui.expiry > now
    /\ now' = now + 1
    /\ UNCHANGED <<users, invitations, usersSeq, uuidSeq, uw, userRequests,
                   failures, spent, refused>>
    /\ UNCHANGED exceptUsers

\* a store call fails in the driver (timeout, lost connection, cancelled
\* context) while the budget of such failures lasts, or it reaches the store
DriverFails == failures < MaxFailures /\ failures' = failures + 1
DriverAnswers == failures' = failures

\* the response registerUserHandler writes for CreateAndInvite's error: the
\* case of ErrDuplicateEmail is empty and Go's switch does not fall through,
\* so nothing is written (0) and net/http answers 200 with an empty body
registerErrorStatus(err) ==
    CASE err = ErrDuplicateEmail -> 0
      [] err = ErrDuplicateUsername -> 400
      [] OTHER -> 500

\* the status activateUserHandler answers for Activate's error
activateStatus(err) ==
    CASE err = Nil -> 204
      [] err = ErrNotFound -> 400
      [] OTHER -> 500

\* the request of record w ends, its locals are gone
Ended(w) ==
    [w EXCEPT !.pc = "done", !.username = 0, !.email = 0, !.user = NoUser,
              !.fnErr = Nil, !.tx = NoTx]

\* the request of record w ends with one written response
Responded(w, status) == [Ended(w) EXCEPT !.status = status, !.written = 1]

\* the caller's code after the repository call of record w returned w.err:
\* registerUserHandler goes on to the mailer or answers the error (after the
\* compensating Delete always the internal server error), activateUserHandler
\* answers, a Delete called on its own just returns
AfterCall(w) ==
    CASE w.req = "register" /\ w.call = "CreateAndInvite" ->
           IF w.err = Nil THEN [w EXCEPT !.pc = "mail"]
           ELSE IF registerErrorStatus(w.err) = 0
           THEN [Ended(w) EXCEPT !.status = 200, !.written = 0]
           ELSE Responded(w, registerErrorStatus(w.err))
      [] w.req = "register" /\ w.call = "Delete" -> Responded(w, 500)
      [] w.req = "activate" -> Responded(w, activateStatus(w.err))
      [] OTHER -> Ended(w)

\* the first statement of each unit of work
FirstStep(call) ==
    CASE call = "CreateAndInvite" -> "Create"
      [] call = "Activate" -> "getUserFromInvite"
      [] call = "Delete" -> "deleteUser"

\* withTx up to the unit of work: db.BeginTx fails and its error is returned,
\* or the function is invoked, once, on the new transaction
withTxBegin(w, beginFailed) ==
    IF beginFailed
    THEN AfterCall([w EXCEPT !.err = StoreError, !.outcome = "begin failed"])
    ELSE [w EXCEPT !.pc = FirstStep(w.call), !.tx = NoTx, !.fnCalls = @ + 1]

\* worker p enters a repository call as record w
Call(p, w) ==
    /\ \/ DriverFails /\ uw' = [uw EXCEPT ![p] = withTxBegin(w, TRUE)]
       \/ DriverAnswers /\ uw' = [uw EXCEPT ![p] = withTxBegin(w, FALSE)]
    /\ refused' = IF w.call = "CreateAndInvite" /\ uw'[p].err # Nil
                  THEN refused \cup {w.token} ELSE refused

\* a withTx that commits whatever the unit of work returned
withTxCommitsAlways(fnErr) == TRUE

\* withTx decides on the unit of work's error: nil commits, an error rolls back
withTxCommits(fnErr) == fnErr = Nil

\* withTx after the unit of work returned: tx.Rollback() and the function's
\* error, or tx.Commit() and its result; then the caller goes on
withTxFinish(p) ==
    /\ uw[p].pc = "finish"
    /\ \E failed \in BOOLEAN :
         LET commit == withTxCommits(uw[p].fnErr)
             applied == commit /\ ~failed
             err == IF ~commit THEN uw[p].fnErr
                    ELSE IF failed THEN StoreError ELSE Nil
         IN /\ IF failed THEN commit /\ DriverFails ELSE DriverAnswers
            /\ users' = IF applied THEN UsersView(p) ELSE users
            /\ invitations' = IF applied THEN InvView(p) ELSE invitations
            /\ uw' = [uw EXCEPT ![p] =
                        AfterCall([@ EXCEPT
                            !.err = err, !.tx = NoTx,
                            !.wrote = uw[p].tx # NoTx,
                            !.outcome = IF ~commit THEN "rollback"
                                        ELSE IF failed THEN "commit failed"
                                        ELSE "commit"])]
            /\ spent' = IF err = Nil /\ uw[p].call = "Activate"
                        THEN spent \cup {uw[p].token} ELSE spent
            /\ refused' = IF err # Nil /\ uw[p].call = "CreateAndInvite"
                          THEN refused \cup {uw[p].token} ELSE refused
    /\ UNCHANGED <<usersSeq, uuidSeq, now, userRequests>>
    /\ UNCHANGED exceptUsers

\* the unit of work of worker p ends with error e
FnReturn(p, e) == [uw EXCEPT ![p].pc = "finish", ![p].fnErr = e]

\* the unique constraint of the users table an insert of (username, email)
\* violates among the given rows
UniqueViolation(rows, username, email) ==
    IF \E r \in rows : r.email = email THEN "users_email_key"
    ELSE IF \E r \in rows : r.username = username THEN "users_username_key"
    ELSE "none"

\* a Create that lets the violated email constraint pass as success
CreateResultIgnoresEmailKey(pqErr) ==
    CASE pqErr = "users_email_key" -> Nil
      [] pqErr = "users_username_key" -> ErrDuplicateUsername
      [] OTHER -> pqErr

\* Create classifies the driver's error by the name of the violated constraint
CreateResult(pqErr) ==
    CASE pqErr = "users_email_key" -> ErrDuplicateEmail
      [] pqErr = "users_username_key" -> ErrDuplicateUsername
      [] OTHER -> pqErr

\* Create: INSERT INTO users (username, password, email) RETURNING id
Create(p) ==
    /\ uw[p].pc = "Create"
    /\ \/ /\ DriverFails
          /\ uw' = FnReturn(p, CreateResult(StoreError))
          /\ UNCHANGED usersSeq
       \/ /\ DriverAnswers
          /\ UniqueViolation(PendingUsers(p), uw[p].username, uw[p].email) = "none"
          /\ LET pqErr == UniqueViolation(UsersView(p), uw[p].username, uw[p].email)
                 dup == \E r \in UsersView(p) : r.email = uw[p].email
             IN IF pqErr # "none"
                THEN /\ uw' = [FnReturn(p, CreateResult(pqErr)) EXCEPT
                                  ![p].dupEmail = dup]
                     /\ UNCHANGED usersSeq
                ELSE /\ usersSeq' = usersSeq + 1
                     /\ uw' = [uw EXCEPT
                          ![p].pc = "createUserInvitation",
                          ![p].id = usersSeq + 1,
                          ![p].tx.insUsers = @ \cup
                              {[id |-> usersSeq + 1, username |-> uw[p].username,
                                email |-> uw[p].email, is_active |-> FALSE]}]
    /\ UNCHANGED <<users, invitations, uuidSeq, now, userRequests, spent, refused>>
    /\ UNCHANGED exceptUsers

\* createUserInvitation: INSERT INTO user_invitations (user_id, token, expiry)
\* with the hashed token the handler passed and expiry = now + the duration
createUserInvitation(p) ==
    /\ uw[p].pc = "createUserInvitation"
    /\ \/ DriverFails /\ uw' = FnReturn(p, StoreError)
       \/ /\ DriverAnswers
          /\ uw' = [FnReturn(p, Nil) EXCEPT
                       ![p].tx.insInv = @ \cup
                           {[token |-> Hash(uw[p].token), user_id |-> uw[p].id,
                             expiry |-> now + InvitationExp]}]
    /\ UNCHANGED <<users, invitations, usersSeq, uuidSeq, now, userRequests,
                   spent, refused>>
    /\ UNCHANGED exceptUsers

\* the WHERE clause of getUserFromInvite: ui.token = $1 and ui.expiry > $2
InviteMatches(ui, hashToken, t) == ui.token = hashToken /\ ui.expiry > t

\* getUserFromInvite: the user joined to the invitation whose stored token is
\* the hash of the given token and which has not expired; Activate then sets
\* IsActive on the struct it got
getUserFromInvite(p) ==
    /\ uw[p].pc = "getUserFromInvite"
    /\ LET found == {u \in UsersView(p) :
                        \E ui \in InvView(p) :
                            /\ ui.user_id = u.id
                            /\ InviteMatches(ui, Hash(uw[p].token), now)}
       IN \/ DriverFails /\ uw' = FnReturn(p, StoreError)
          \/ DriverAnswers /\ found = {} /\ uw' = FnReturn(p, ErrNotFound)
          \/ /\ DriverAnswers
             /\ \E u \in found :
                  uw' = [uw EXCEPT ![p].pc = "update", ![p].id = u.id,
                                   ![p].user = [u EXCEPT !.is_active = TRUE]]
    /\ UNCHANGED <<users, invitations, usersSeq, uuidSeq, now, userRequests,
                   spent, refused>>
    /\ UNCHANGED exceptUsers

\* update: UPDATE users SET username, email, is_active WHERE id = $4; the
\* number of rows it changed is not looked at
update(p) ==
    /\ uw[p].pc = "update"
    /\ \/ DriverFails /\ uw' = FnReturn(p, StoreError)
       \/ /\ DriverAnswers
          /\ uw[p].id \notin LockedUsers(p)
          /\ uw' = [uw EXCEPT
               ![p].pc = "deleteInvite",
               ![p].absent = ~(\E r \in UsersView(p) : r.id = uw[p].id),
               ![p].tx.updUsers =
                   IF \E r \in UsersView(p) : r.id = uw[p].id
                   THEN {u \in @ : u.id # uw[p].id} \cup {uw[p].user}
                   ELSE @]
    /\ UNCHANGED <<users, invitations, usersSeq, uuidSeq, now, userRequests,
                   spent, refused>>
    /\ UNCHANGED exceptUsers

\* a deleteInvite that reports success and leaves the invitation rows
deleteInviteKeepsRows(p) ==
    /\ uw[p].pc = "deleteInvite"
    /\ \/ DriverFails /\ uw' = FnReturn(p, StoreError)
       \/ DriverAnswers /\ uw' = FnReturn(p, Nil)
    /\ UNCHANGED <<users, invitations, usersSeq, uuidSeq, now, userRequests,
                   spent, refused>>
    /\ UNCHANGED exceptUsers

\* deleteInvite: DELETE FROM user_invitations WHERE user_id = $1
deleteInvite(p) ==
    /\ uw[p].pc = "deleteInvite"
    /\ LET rows == {ui \in InvView(p) : ui.user_id = uw[p].id}
       IN \/ DriverFails /\ uw' = FnReturn(p, StoreError)
          \/ /\ DriverAnswers
             /\ rows \cap LockedInv(p) = {}
             /\ uw' = [FnReturn(p, Nil) EXCEPT
                          ![p].tx.delInv = @ \cup (rows \cap invitations),
                          ![p].tx.insInv = @ \ rows]
    /\ UNCHANGED <<users, invitations, usersSeq, uuidSeq, now, userRequests,
                   spent, refused>>
    /\ UNCHANGED exceptUsers

\* the error deleteUser returns for the driver's error; the affected-row
\* count of the DELETE is not looked at
deleteUserResult(execErr, rows) ==
    IF execErr = "ErrNoRows" THEN ErrNotFound ELSE execErr

\* deleteUser: DELETE FROM users WHERE id = $1
deleteUser(p) ==
    /\ uw[p].pc = "deleteUser"
    /\ LET rows == {r \in UsersView(p) : r.id = uw[p].id}
           next(e) == IF e = Nil THEN [uw EXCEPT ![p].pc = "deleteInvite"]
                      ELSE FnReturn(p, e)
       IN \/ DriverFails /\ uw' = next(deleteUserResult(StoreError, 0))
          \/ /\ DriverAnswers
             /\ uw[p].id \notin LockedUsers(p)
             /\ uw' = [next(deleteUserResult(Nil, Cardinality(rows))) EXCEPT
                          ![p].absent = (rows = {}),
                          ![p].tx.delUsers = @ \cup {r.id : r \in rows \cap users},
                          ![p].tx.insUsers = @ \ rows]
    /\ UNCHANGED <<users, invitations, usersSeq, uuidSeq, now, userRequests,
                   spent, refused>>
    /\ UNCHANGED exceptUsers

\* a worker takes a users request while the request budget lasts
StartUw(p) ==
    /\ uw[p].pc \in {"idle", "done"}
    /\ userRequests < MaxUserRequests
    /\ userRequests' = userRequests + 1

\* registerUserHandler up to the first statement of CreateAndInvite: a fresh
\* uuid is the plain token, its hash goes to the repository
registerUserHandler(p) ==
    /\ StartUw(p)
    /\ uuidSeq < MaxUsers
    /\ uuidSeq' = uuidSeq + 1
    /\ \E username \in Usernames, email \in Emails :
         Call(p, [IdleUw EXCEPT !.req = "register", !.call = "CreateAndInvite",
                                !.username = username, !.email = email,
                                !.token = uuidSeq + 1])
    /\ UNCHANGED <<users, invitations, usersSeq, now, spent>>
    /\ UNCHANGED exceptUsers

\* a handler that never compensates a failed mail
CompensatesNever(mailErr) == FALSE

\* what registerUserHandler does for the mailer's error: it compensates with
\* Delete, or answers 201
CompensatesOn(mailErr) == mailErr # Nil

\* registerUserHandler at mailer.Send: on an error the just-created user is
\* deleted (Delete is entered) before the error response
registerMail(p) ==
    /\ uw[p].pc = "mail"
    /\ \E mailErr \in {Nil, "mail failed"} :
         IF CompensatesOn(mailErr)
         THEN Call(p, [uw[p] EXCEPT !.call = "Delete", !.fnCalls = 0,
                                    !.outcome = "none", !.wrote = FALSE,
                                    !.mailErr = mailErr])
         ELSE /\ uw' = [uw EXCEPT ![p] = Responded([@ EXCEPT !.mailErr = mailErr], 201)]
              /\ UNCHANGED <<failures, refused>>
    /\ UNCHANGED <<users, invitations, usersSeq, uuidSeq, now, userRequests, spent>>
    /\ UNCHANGED exceptUsers

\* activateUserHandler up to the first statement of Activate, with the token
\* of the URL: a token that was issued, or the stored hash of one
activateUserHandler(p) ==
    /\ StartUw(p)
    /\ \E token \in (1 .. uuidSeq) \cup {Hash(1)} :
         Call(p, [IdleUw EXCEPT !.req = "activate", !.call = "Activate",
                                !.token = token, !.late = token \in spent])
    /\ UNCHANGED <<users, invitations, usersSeq, uuidSeq, now, spent>>
    /\ UNCHANGED exceptUsers

\* UsersRepository.Delete called on its own, for the id of a stored user (a
\* caller learns an id when CreateAndInvite has returned) or for an id no row
\* has
Delete(p) ==
    /\ StartUw(p)
    /\ \E id \in {u.id : u \in users} \cup {MissingUserId} :
         Call(p, [IdleUw EXCEPT !.req = "delete", !.call = "Delete", !.id = id])
    /\ UNCHANGED <<users, invitations, usersSeq, uuidSeq, now, spent>>
    /\ UNCHANGED exceptUsers

NextUsers ==
    \/ Tick
    \/ \E p \in Workers :
         \/ registerUserHandler(p)
         \/ registerMail(p)
         \/ activateUserHandler(p)
         \/ Delete(p)
         \/ withTxFinish(p)
         \/ Create(p)
         \/ createUserInvitation(p)
         \/ getUserFromInvite(p)
         \/ update(p)
         \/ deleteInvite(p)
         \/ deleteUser(p)

NextPosts ==
    \E p \in Workers :
        \/ postsContextMiddleware(p)
        \/ updatePostByIdHandler(p)
        \/ UpdateById(p)
        \/ updatePostByIdRespond(p)
        \/ deletePostByIdHandler(p)
        \/ postsRequestDone(p)

\* ------------------------------------------------------------- followers
\* the authenticated user of followUserHandler and unfollowUserHandler
CurrentUserId == 199

IdleFw ==
    [pc |-> "idle", req |-> "none", id |-> 0, err |-> Nil, status |-> 0,
     written |-> 0, present |-> FALSE, raced |-> FALSE]

\* the followers table holds nothing; rows are counted per (user_id,
\* follower_id) pair
InitFollow ==
    /\ followers = [id \in UserIds |-> 0]
    /\ fw = [p \in Workers |-> IdleFw]
    /\ followRequests = 0

\* users that registered and activated before the follow requests come in
ActiveUsers ==
    {[id |-> i, username |-> i, email |-> i, is_active |-> TRUE] : i \in UserIds}

\* UsersRepository.GetById: SELECT ... WHERE id = $1 AND is_active = true
UsersGetById(id) == {u \in users : u.id = id /\ u.is_active}

\* UsersRepository.GetByEmail: SELECT ... WHERE email = $1 AND is_active = true
UsersGetByEmail(email) == {u \in users : u.email = email /\ u.is_active}

\* usersContextMiddleware in front of followUserHandler or
\* unfollowUserHandler: the user of the path is loaded, or 404 / 500
usersContextMiddleware(p) ==
    /\ fw[p].pc \in {"idle", "done", "rejected"}
    /\ followRequests < MaxFollowRequests
    /\ followRequests' = followRequests + 1
    /\ \E req \in {"Follow", "Unfollow"}, id \in UserIds \cup {MissingUserId},
          failed \in BOOLEAN :
         LET w == [IdleFw EXCEPT !.req = req, !.id = id]
             both == {q \in Workers \ {p} :
                         /\ req = "Follow" /\ fw[q].pc = "Follow"
                         /\ fw[q].id = id /\ followers[id] = 0}
         IN IF failed
            THEN fw' = [fw EXCEPT ![p] =
                          [w EXCEPT !.pc = "rejected", !.err = StoreError,
                                    !.status = 500, !.written = 1]]
            ELSE IF UsersGetById(id) = {}
            THEN fw' = [fw EXCEPT ![p] =
                          [w EXCEPT !.pc = "rejected", !.err = ErrNotFound,
                                    !.status = 404, !.written = 1]]
            ELSE fw' = [q \in Workers |->
                          IF q = p THEN [w EXCEPT !.pc = req, !.raced = both # {}]
                          ELSE IF q \in both THEN [fw[q] EXCEPT !.raced = TRUE]
                          ELSE fw[q]]
    /\ UNCHANGED followers
    /\ UNCHANGED exceptFollow

\* the unique constraint on (user_id, follower_id): the SQLSTATE an insert of
\* a pair gets when the table holds count rows of it
FollowersUniqueViolation(count) == IF count > 0 THEN "23505" ELSE Nil

\* a Follow that passes the driver's unique violation on as success
FollowResultIgnoresCode(pqErr) == IF pqErr = "23505" THEN Nil ELSE pqErr

\* Follow maps the driver's error: SQLSTATE 23505 is ErrConflict, anything
\* else is returned as it is
FollowResult(pqErr) == IF pqErr = "23505" THEN ErrConflict ELSE pqErr

followStatus(err) ==
    IF err = Nil THEN 200 ELSE IF err = ErrConflict THEN 409 ELSE 500

\* followUserHandler with Follow: INSERT INTO followers (user_id, follower_id)
Follow(p) ==
    /\ fw[p].pc = "Follow"
    /\ \E failed \in BOOLEAN :
         LET id == fw[p].id
             pqErr == IF failed THEN StoreError
                      ELSE FollowersUniqueViolation(followers[id])
             err == FollowResult(pqErr)
             stored == pqErr = Nil
         IN /\ followers' = IF stored
                            THEN [followers EXCEPT ![id] = @ + 1]
                            ELSE followers
            /\ fw' = [fw EXCEPT ![p].pc = "done", ![p].err = err,
                                ![p].present = (followers[id] > 0),
                                ![p].status = followStatus(err),
                                ![p].written = 1]
    /\ UNCHANGED followRequests
    /\ UNCHANGED exceptFollow

\* an Unfollow that looks at the query error only
UnfollowResultIgnoresRows(execErr, rows) ==
    IF execErr = "ErrNoRows" THEN ErrNotFound ELSE execErr

\* the error Unfollow returns for the driver's error and affected-row count
UnfollowResult(execErr, rows) ==
    IF execErr = "ErrNoRows" THEN ErrNotFound
    ELSE IF execErr # Nil THEN execErr
    ELSE IF rows = 0 THEN ErrNotFound ELSE Nil

\* unfollowUserHandler with Unfollow: DELETE FROM followers WHERE (user_id,
\* follower_id) = ($1, $2). On an error the handler writes the 500 and goes
\* on to write the 200 body as well; the status sent first is the one the
\* client gets.
Unfollow(p) ==
    /\ fw[p].pc = "Unfollow"
    /\ \E failed \in BOOLEAN :
         LET id == fw[p].id
             rows == IF failed THEN 0 ELSE followers[id]
             err == UnfollowResult(IF failed THEN StoreError ELSE Nil, rows)
         IN /\ followers' = IF failed THEN followers
                            ELSE [followers EXCEPT ![id] = 0]
            /\ fw' = [fw EXCEPT ![p].pc = "done", ![p].err = err,
                                ![p].present = (followers[id] > 0),
                                ![p].status = IF err = Nil THEN 200 ELSE 500,
                                ![p].written = IF err = Nil THEN 1 ELSE 2]
    /\ UNCHANGED followRequests
    /\ UNCHANGED exceptFollow

NextFollow ==
    \E p \in Workers :
        \/ usersContextMiddleware(p)
        \/ Follow(p)
        \/ Unfollow(p)

\* the delete route of the posts API alone
NextDeletes ==
    \E p \in Workers :
        \/ postsContextMiddleware(p)
        \/ deletePostByIdHandler(p)
        \/ postsRequestDone(p)

\* ------------------------------------------------------------------ cache
\* deletedAt of a user whose row is still there
Never == -1

\* the users variables a keyed read leaves alone (it reads users only)
usersRest == <<invitations, usersSeq, uuidSeq, now, uw, userRequests, failures,
               spent, refused>>
exceptCache == <<postVars, followVars, usersRest, limiterVars, feedVars,
                 tokenVars, mailVars>>

CacheKeys == UserIds \cup {MissingUserId}

\* the *store.User GetById scans: the password hash is read, IsActive is not
\* among the scanned columns and stays false
ScannedUser(u) ==
    [id |-> u.id, username |-> u.username, email |-> u.email,
     passwordHash |-> u.id, is_active |-> FALSE]

NoStoreUser ==
    [id |-> 0, username |-> 0, email |-> 0, passwordHash |-> 0,
     is_active |-> FALSE]

\* json.Marshal of a user: Password has no exported field and is written {}
Marshal(user) ==
    [id |-> user.id, username |-> user.username, email |-> user.email,
     is_active |-> user.is_active]

\* json.Unmarshal into a zero store.User
Unmarshal(data) ==
    [id |-> data.id, username |-> data.username, email |-> data.email,
     passwordHash |-> 0, is_active |-> data.is_active]

NoEntry == [set |-> FALSE, data |-> Marshal(NoStoreUser), expires |-> 0, setAt |-> 0]

\* redis keeps a key until its expiry time
Live(e, t) == e.set /\ e.expires > t

IdleCr ==
    [pc |-> "idle", id |-> 0, late |-> FALSE, ops |-> <<>>, got |-> "none",
     present |-> FALSE, getErr |-> FALSE, setErr |-> FALSE, inStore |-> FALSE,
     user |-> NoStoreUser, err |-> Nil]

InitCache ==
    /\ rdb = [id \in CacheKeys |-> NoEntry]
    /\ ctime = 0
    /\ cr = [p \in Workers |-> IdleCr]
    /\ cacheReads = 0
    /\ deletedAt = [id \in CacheKeys |-> Never]

\* time passes
cacheTick ==
    /\ ctime < MaxCacheTime
    /\ ctime' = ctime + 1
    /\ UNCHANGED <<rdb, cr, cacheReads, deletedAt, users>>
    /\ UNCHANGED exceptCache

\* a read of id begins more than UserExpTime after the user's row was deleted
LateFor(id) == deletedAt[id] # Never /\ ctime > deletedAt[id] + UserExpTime

\* a keyed user read begins: the cache is asked first
getUser(p) ==
    /\ cr[p].pc \in {"idle", "done"}
    /\ cacheReads < MaxCacheReads
    /\ cacheReads' = cacheReads + 1
    /\ \E id \in CacheKeys :
         cr' = [cr EXCEPT ![p] = [IdleCr EXCEPT !.pc = "cacheGet", !.id = id,
                                                !.late = LateFor(id)]]
    /\ UNCHANGED <<rdb, ctime, deletedAt, users>>
    /\ UNCHANGED exceptCache

\* a Get that reports an absent key as an error
CacheGetResultNilIsError(redisErr, data) ==
    IF redisErr # Nil THEN [kind |-> "error", user |-> NoStoreUser]
    ELSE [kind |-> "miss", user |-> NoStoreUser]

\* what UsersCacheRedis.Get returns for redis' answer: redis.Nil is a miss,
\* another error is returned, and stored data is unmarshalled into a user
\* that is then not returned: nil, nil again
CacheGetResult(redisErr, data) ==
    IF redisErr = "redis.Nil" THEN [kind |-> "miss", user |-> NoStoreUser]
    ELSE IF redisErr # Nil THEN [kind |-> "error", user |-> NoStoreUser]
    ELSE [kind |-> "miss", user |-> NoStoreUser]

\* the read after the cache answered: a hit is returned, a miss and a cache
\* failure go on to the repository
AfterCacheGet(kind) == IF kind = "hit" THEN "done" ELSE "GetById"

\* UsersCacheRedis.Get for the key of the read
UsersCacheGet(p) ==
    /\ cr[p].pc = "cacheGet"
    /\ \E failed \in BOOLEAN :
         LET e == rdb[cr[p].id]
             redisErr == IF failed THEN StoreError
                         ELSE IF Live(e, ctime) THEN Nil ELSE "redis.Nil"
             res == CacheGetResult(redisErr, e.data)
         IN cr' = [cr EXCEPT ![p].pc = AfterCacheGet(res.kind),
                             ![p].ops = Append(@, "Get"),
                             ![p].got = res.kind,
                             ![p].present = ~failed /\ Live(e, ctime),
                             ![p].getErr = failed,
                             ![p].user = res.user]
    /\ UNCHANGED <<rdb, ctime, cacheReads, deletedAt, users>>
    /\ UNCHANGED exceptCache

\* a read that returns the repository's user without writing the cache
AfterGetByIdSkipsSet(err) == "done"

\* the read after the repository answered: an error ends the read, a found
\* user is put into the cache before it is returned
AfterGetById(err) == IF err = Nil THEN "cacheSet" ELSE "done"

\* UsersRepository.GetById for the id of the read
cacheGetById(p) ==
    /\ cr[p].pc = "GetById"
    /\ \E failed \in BOOLEAN :
         LET rows == UsersGetById(cr[p].id)
             err == IF failed THEN StoreError
                    ELSE IF rows = {} THEN ErrNotFound ELSE Nil
         IN \E u \in IF err = Nil THEN rows ELSE {NoUser} :
              cr' = [cr EXCEPT ![p].pc = AfterGetById(err),
                               ![p].ops = Append(@, "GetById"),
                               ![p].inStore = (rows # {}),
                               ![p].err = err,
                               ![p].user = IF err = Nil THEN ScannedUser(u)
                                           ELSE NoStoreUser]
    /\ UNCHANGED <<rdb, ctime, cacheReads, deletedAt, users>>
    /\ UNCHANGED exceptCache

\* a Set that stores the key without an expiry
SetEXNeverExpires(user, t) ==
    [set |-> TRUE, data |-> Marshal(user), expires |-> t + MaxCacheTime + UserExpTime + 1,
     setAt |-> t]

\* the entry SetEX writes at time t: the marshalled user, kept for UserExpTime
SetEX(user, t) ==
    [set |-> TRUE, data |-> Marshal(user), expires |-> t + UserExpTime, setAt |-> t]

\* the read after the cache was written: its failure is logged, the user the
\* repository gave is returned
AfterCacheSet(setErr, err) == err

\* UsersCacheRedis.Set for the user the repository returned
UsersCacheSet(p) ==
    /\ cr[p].pc = "cacheSet"
    /\ \E failed \in BOOLEAN :
         /\ rdb' = IF failed THEN rdb
                   ELSE [rdb EXCEPT ![cr[p].user.id] = SetEX(cr[p].user, ctime)]
         /\ cr' = [cr EXCEPT ![p].pc = "done",
                             ![p].ops = Append(@, "Set"),
                             ![p].setErr = failed,
                             ![p].err = AfterCacheSet(failed, cr[p].err)]
    /\ UNCHANGED <<ctime, cacheReads, deletedAt, users>>
    /\ UNCHANGED exceptCache

\* a Delete of a stored user has committed: its row is gone
userDeleted ==
    /\ Cardinality({id \in CacheKeys : deletedAt[id] # Never}) < MaxCacheDeletes
    /\ \E u \in users :
         /\ users' = users \ {u}
         /\ deletedAt' = [deletedAt EXCEPT ![u.id] = ctime]
    /\ UNCHANGED <<rdb, ctime, cr, cacheReads>>
    /\ UNCHANGED exceptCache

NextCache ==
    \/ cacheTick
    \/ userDeleted
    \/ \E p \in Workers :
         \/ getUser(p)
         \/ UsersCacheGet(p)
         \/ cacheGetById(p)
         \/ UsersCacheSet(p)

\* ----------------------------------------------------------- rate limiter
\* the fixed-window limiter main.go constructs from config.rateLimiter and
\* the middleware that asks it before a request is served

exceptLimiter == <<postVars, userVars, followVars, cacheVars, feedVars,
                   tokenVars, mailVars>>

\* the caller keys requests arrive with
CallerKeys == {"a", "b"}

NoWorker == 0
NoClient == [exists |-> FALSE, count |-> 0, start |-> 0]

IdleLr == [pc |-> "idle", key |-> "a", seen |-> NoClient, at |-> 0,
           allowed |-> FALSE, ops |-> <<>>, status |-> 0, raced |-> FALSE]

InitLimiter ==
    /\ clients = [k \in CallerKeys |-> NoClient]
    /\ mu = NoWorker
    /\ ltime = 0
    /\ lr = [p \in Workers |-> IdleLr]
    /\ limiterRequests = 0
    /\ trace = <<>>
    /\ served = 0

\* the clock advances
limiterTick ==
    /\ ltime < MaxLimiterTime
    /\ ltime' = ltime + 1
    /\ UNCHANGED <<clients, mu, lr, limiterRequests, trace, served>>
    /\ UNCHANGED exceptLimiter

\* a request with caller key k reaches the middleware
RateLimiterMiddleware(p) ==
    /\ lr[p].pc \in {"idle", "done"}
    /\ limiterRequests < MaxLimiterRequests
    /\ \E k \in CallerKeys :
          lr' = [lr EXCEPT ![p] =
                    [IdleLr EXCEPT !.pc = "Lock", !.key = k,
                                   !.raced = \E q \in Workers \ {p} :
                                                /\ lr[q].pc \in {"Lock", "Allow"}
                                                /\ lr[q].key = k]]
    /\ limiterRequests' = limiterRequests + 1
    /\ UNCHANGED <<clients, mu, ltime, trace, served>>
    /\ UNCHANGED exceptLimiter

\* a limiter that lets every worker in
CanLockAlways(holder) == TRUE

\* the limiter's mutual exclusion: one worker at a time
CanLock(holder) == holder = NoWorker

\* the worker enters the limiter and reads the key's counter and window start
Lock(p) ==
    /\ lr[p].pc = "Lock"
    /\ CanLock(mu)
    /\ mu' = p
    /\ lr' = [lr EXCEPT ![p].pc = "Allow",
                        ![p].seen = clients[lr[p].key]]
    /\ UNCHANGED <<clients, ltime, limiterRequests, trace, served>>
    /\ UNCHANGED exceptLimiter

\* a window that never ends
WindowNeverOver(c, t) == FALSE

\* the window of a key is over once the time is past its start plus its size
WindowOver(c, t) == t > c.start + TimeFrame

\* a limiter that counts the requests it rejects
DeniedCounts(c) == [c EXCEPT !.count = c.count + 1]

\* what a rejected request leaves of the key's state
Denied(c) == c

\* the decision for a key in state c at time t, and the key's next state
AllowResult(c, t) ==
    IF ~c.exists \/ WindowOver(c, t)
    THEN [allowed |-> TRUE, client |-> [exists |-> TRUE, count |-> 1, start |-> t]]
    ELSE IF c.count < RequestsPerTimeFrame
    THEN [allowed |-> TRUE, client |-> [c EXCEPT !.count = c.count + 1]]
    ELSE [allowed |-> FALSE, client |-> Denied(c)]

\* the worker decides, writes the key's state and leaves the limiter
Allow(p) ==
    /\ lr[p].pc = "Allow"
    /\ LET r == AllowResult(lr[p].seen, ltime)
       IN /\ clients' = [clients EXCEPT ![lr[p].key] = r.client]
          /\ lr' = [lr EXCEPT ![p].pc = IF r.allowed THEN "next" ELSE "denied",
                              ![p].allowed = r.allowed,
                              ![p].at = ltime,
                              ![p].ops = Append(lr[p].ops, "Allow")]
          /\ trace' = Append(trace, [key |-> lr[p].key, at |-> ltime,
                                     allowed |-> r.allowed,
                                     start |-> r.client.start])
    /\ mu' = NoWorker
    /\ UNCHANGED <<ltime, limiterRequests, served>>
    /\ UNCHANGED exceptLimiter

\* an admitted request goes on to its handler, which uses store and cache
limiterNext(p) ==
    /\ lr[p].pc = "next"
    /\ served' = served + 1
    /\ lr' = [lr EXCEPT ![p].pc = "done", ![p].status = 200,
                        ![p].ops = Append(lr[p].ops, "handler")]
    /\ UNCHANGED <<clients, mu, ltime, limiterRequests, trace>>
    /\ UNCHANGED exceptLimiter

\* a rejected request is answered 429 at once
rateLimitExceededResponse(p) ==
    /\ lr[p].pc = "denied"
    /\ lr' = [lr EXCEPT ![p].pc = "done", ![p].status = 429]
    /\ UNCHANGED <<clients, mu, ltime, limiterRequests, trace, served>>
    /\ UNCHANGED exceptLimiter

NextLimiter ==
    \/ limiterTick
    \/ \E p \in Workers : RateLimiterMiddleware(p)
    \/ \E p \in Workers : Lock(p)
    \/ \E p \in Workers : Allow(p)
    \/ \E p \in Workers : limiterNext(p)
    \/ \E p \in Workers : rateLimitExceededResponse(p)

\* -------------------------------------------------------------------- feed
\* GET /v1/users/feed: getUserFeedHandler parses and validates the query
\* parameters and GetUserFeed runs the feed query for the current user

exceptFeed == <<postVars, userVars, followVars, cacheVars, limiterVars,
                tokenVars, mailVars>>

FeedPostIds == 1 .. MaxFeedPosts
FeedAuthors == UserIds \cup {CurrentUserId}
\* the rows of the posts table as the feed query sees them
FeedRows == [user_id : FeedAuthors, created_at : FeedPostIds,
             tags : SUBSET {"go"}, title : {"a", "b"}]

\* the rows of the followers table: user_id is followed by follower_id
FollowerRows ==
    {[user_id |-> id, follower_id |-> CurrentUserId] :
        id \in {i \in UserIds : followers[i] > 0}}

\* the query parameters of a request; "" is a parameter that is absent
FeedParams ==
    [limit : {"", "1", "x"}, offset : {"", "1"},
     sort : {"", "asc", "desc", "created_at"},
     filter : {[tags |-> "", search |-> "", since |-> "", until |-> ""],
               [tags |-> "go", search |-> "", since |-> "", until |-> ""],
               [tags |-> "", search |-> "a", since |-> "", until |-> ""],
               [tags |-> "", search |-> "", since |-> "2", until |-> ""],
               [tags |-> "", search |-> "", since |-> "", until |-> "1"],
               [tags |-> "", search |-> "", since |-> "soon", until |-> ""]}]

\* strconv.Atoi on the parameter values in use
Digits == {"0", "1", "2"}
Atoi(s) ==
    IF s \in Digits
    THEN [n |-> CASE s = "0" -> 0 [] s = "1" -> 1 [] s = "2" -> 2, err |-> Nil]
    ELSE [n |-> 0, err |-> StoreError]

\* parseTime: a time in the layout comes back formatted, anything else as ""
parseTime(s) == IF s \in Digits THEN s ELSE ""

\* the query specification the handler starts from
DefaultQuery == [Limit |-> DefaultLimit, Offset |-> 0, Sort |-> "desc",
                 Tags |-> {}, Search |-> "", Since |-> "", Until |-> ""]

\* PaginatedFeedQuery.Parse
Parse(pfq, q) ==
    LET limit == Atoi(q.limit)
        offset == Atoi(q.offset)
    IN IF q.limit # "" /\ limit.err # Nil THEN [pfq |-> pfq, err |-> limit.err]
       ELSE LET a == IF q.limit # "" THEN [pfq EXCEPT !.Limit = limit.n] ELSE pfq
            IN IF q.offset # "" /\ offset.err # Nil
               THEN [pfq |-> a, err |-> offset.err]
               ELSE LET b == IF q.offset # ""
                             THEN [a EXCEPT !.Offset = offset.n] ELSE a
                        c == IF q.sort # "" THEN [b EXCEPT !.Sort = q.sort] ELSE b
                        d == IF q.filter.tags # ""
                             THEN [c EXCEPT !.Tags = {q.filter.tags}] ELSE c
                        e == IF q.filter.search # ""
                             THEN [d EXCEPT !.Search = q.filter.search] ELSE d
                        f == IF q.filter.since # ""
                             THEN [e EXCEPT !.Since = parseTime(q.filter.since)]
                             ELSE e
                        g == IF q.filter.until # ""
                             THEN [f EXCEPT !.Until = parseTime(q.filter.until)]
                             ELSE f
                    IN [pfq |-> g, err |-> Nil]

\* a validation that lets every sort direction pass
ValidSortAny(sort) == TRUE

\* validate:"oneof=asc desc"
ValidSort(sort) == sort \in {"asc", "desc"}

\* Validate.Struct on a PaginatedFeedQuery
ValidateStruct(pfq) ==
    /\ pfq.Limit >= 0
    /\ pfq.Offset >= 0
    /\ ValidSort(pfq.Sort)
    /\ Cardinality(pfq.Tags) <= MaxTags

NoQuery == "none"

IdleFr == [pc |-> "idle", q |-> CHOOSE q \in FeedParams : TRUE,
           pfq |-> DefaultQuery, status |-> 0, sortText |-> NoQuery,
           feed |-> <<>>, counts |-> <<>>, err |-> Nil]

InitFeed ==
    /\ postRows = <<>>
    /\ comments = <<>>
    /\ fr = [p \in Workers |-> IdleFr]
    /\ feedRequests = 0

\* the handler up to the store call: 400 when Parse or Validate refuses
getUserFeedHandler(p) ==
    /\ fr[p].pc \in {"idle", "done"}
    /\ feedRequests < MaxFeedRequests
    /\ feedRequests' = feedRequests + 1
    /\ \E q \in FeedParams :
          LET parsed == Parse(DefaultQuery, q)
              ok == parsed.err = Nil /\ ValidateStruct(parsed.pfq)
          IN fr' = [fr EXCEPT ![p] =
                       [IdleFr EXCEPT !.q = q,
                                      !.pfq = parsed.pfq,
                                      !.pc = IF ok THEN "GetUserFeed" ELSE "done",
                                      !.status = IF ok THEN 0 ELSE 400]]
    /\ UNCHANGED <<postRows, comments>>
    /\ UNCHANGED exceptFeed

\* the posts the statement's joins and WHERE clause keep, one per group
FeedJoin(userId) ==
    {id \in DOMAIN postRows :
        \E f \in FollowerRows :
            /\ f.user_id = postRows[id].user_id \/ postRows[id].user_id = userId
            /\ f.follower_id = userId}

\* ORDER BY p.created_at with the direction of the query text
RECURSIVE OrderBy(_, _)
OrderBy(ids, sort) ==
    IF ids = {} THEN <<>>
    ELSE LET first == CHOOSE x \in ids : \A y \in ids :
                         IF sort = "asc"
                         THEN postRows[x].created_at <= postRows[y].created_at
                         ELSE postRows[x].created_at >= postRows[y].created_at
         IN <<first>> \o OrderBy(ids \ {first}, sort)

\* LIMIT $2 OFFSET $3
LimitOffset(rows, limit, offset) ==
    SubSeq(rows, offset + 1,
           IF offset + limit < Len(rows) THEN offset + limit ELSE Len(rows))

\* the followers rows the JOIN pairs with post id: those of the author the
\* user follows, and every row of the user when the post is the user's own
JoinedFollowers(userId, id) ==
    {f \in FollowerRows :
        /\ f.user_id = postRows[id].user_id \/ postRows[id].user_id = userId
        /\ f.follower_id = userId}

\* COUNT(c.id) over the group of post id: one joined row for every pair of
\* a comment of the post and a followers row the JOIN keeps
CommentsCount(userId, id) ==
    comments[id] * Cardinality(JoinedFollowers(userId, id))

\* GetUserFeed: pfq.Sort is concatenated into the statement; a statement
\* whose direction is no SQL direction is refused by the database
GetUserFeedResult(userId, pfq, failed) ==
    IF failed \/ pfq.Sort \notin {"asc", "desc"}
    THEN [feed |-> <<>>, counts |-> <<>>, err |-> StoreError]
    ELSE LET page == LimitOffset(OrderBy(FeedJoin(userId), pfq.Sort),
                                 pfq.Limit, pfq.Offset)
         IN [feed |-> page,
             counts |-> [i \in 1 .. Len(page) |-> CommentsCount(userId, page[i])],
             err |-> Nil]

GetUserFeed(p) ==
    /\ fr[p].pc = "GetUserFeed"
    /\ \E failed \in BOOLEAN :
          LET r == GetUserFeedResult(CurrentUserId, fr[p].pfq, failed)
          IN fr' = [fr EXCEPT ![p].pc = "done",
                              ![p].sortText = fr[p].pfq.Sort,
                              ![p].feed = r.feed,
                              ![p].counts = r.counts,
                              ![p].err = r.err,
                              ![p].status = IF r.err = Nil THEN 200 ELSE 500]
    /\ UNCHANGED <<postRows, comments, feedRequests>>
    /\ UNCHANGED exceptFeed

NextFeed ==
    \/ \E p \in Workers : getUserFeedHandler(p)
    \/ \E p \in Workers : GetUserFeed(p)

\* ------------------------------------------------------------------ tokens
\* POST /v1/authentication/token: createTokenHandler looks the user up by
\* the payload's email and has the authenticator sign a token for it

exceptTokens == <<postVars, userVars, followVars, cacheVars, limiterVars,
                  feedVars, mailVars>>

NoToken == 0

\* the password a user registered with (Password.Set at registration)
PasswordOf(id) == id

\* the users table after any registrations and activations: each id is
\* absent, stored and not yet active, or stored and active
StoredUsers ==
    {{[id |-> i, username |-> i, email |-> i, is_active |-> st[i] = "active"] :
         i \in {j \in UserIds : st[j] # "absent"}} :
       st \in [UserIds -> {"absent", "inactive", "active"}]}

IdleTw == [pc |-> "idle", email |-> NoField, password |-> NoField,
           user |-> NoUser, err |-> Nil, token |-> NoToken, status |-> 0]

InitTokens ==
    /\ tw = [p \in Workers |-> IdleTw]
    /\ tokenRequests = 0

\* createTokenHandler up to the store call: readJSON and Validate.Struct
\* answer 400 when the email or the password is missing
createTokenHandler(p) ==
    /\ tw[p].pc \in {"idle", "done"}
    /\ tokenRequests < MaxTokenRequests
    /\ tokenRequests' = tokenRequests + 1
    /\ \E email \in Emails \cup {NoField},
          password \in {PasswordOf(id) : id \in UserIds} \cup {NoField} :
          LET ok == email # NoField /\ password # NoField
          IN tw' = [tw EXCEPT ![p] =
                       [IdleTw EXCEPT !.email = email,
                                      !.password = password,
                                      !.pc = IF ok THEN "GetByEmail" ELSE "done",
                                      !.status = IF ok THEN 0 ELSE 400]]
    /\ UNCHANGED exceptTokens

\* GetByEmail and the handler's switch on its error: ErrNotFound is
\* answered 401, any other error 500
GetByEmail(p) ==
    /\ tw[p].pc = "GetByEmail"
    /\ \E failed \in BOOLEAN :
          LET found == UsersGetByEmail(tw[p].email)
              err == IF failed THEN StoreError
                     ELSE IF found = {} THEN ErrNotFound ELSE Nil
          IN tw' = [tw EXCEPT
                       ![p].err = err,
                       ![p].user = IF err = Nil
                                   THEN CHOOSE u \in found : TRUE
                                   ELSE NoUser,
                       ![p].pc = IF err = Nil THEN "GenerateToken" ELSE "done",
                       ![p].status = CASE err = Nil -> 0
                                       [] err = ErrNotFound -> 401
                                       [] OTHER -> 500]
    /\ UNCHANGED tokenRequests
    /\ UNCHANGED exceptTokens

\* the claims are built with the user's id as subject and handed to
\* GenerateToken: its token is answered 200, its error 500
GenerateToken(p) ==
    /\ tw[p].pc = "GenerateToken"
    /\ \E failed \in BOOLEAN :
          tw' = [tw EXCEPT ![p].pc = "done",
                           ![p].err = IF failed THEN StoreError ELSE Nil,
                           ![p].token = IF failed THEN NoToken ELSE tw[p].user.id,
                           ![p].status = IF failed THEN 500 ELSE 200]
    /\ UNCHANGED tokenRequests
    /\ UNCHANGED exceptTokens

NextTokens ==
    \E p \in Workers :
        \/ createTokenHandler(p)
        \/ GetByEmail(p)
        \/ GenerateToken(p)

\* ------------------------------------------------------------------ mailer
\* SendGridMailer.Send: the templates are rendered, then the message is
\* handed to the client until one call returns no error or the tries are used

exceptMailer == <<postVars, userVars, followVars, cacheVars, limiterVars,
                  feedVars, tokenVars>>

\* results: history of the client calls of the Send in progress
IdleMw == [pc |-> "idle", i |-> 0, rendered |-> FALSE, results |-> <<>>,
           err |-> Nil]

InitMailer ==
    /\ mw = [p \in Workers |-> IdleMw]
    /\ mailRequests = 0

\* Send up to the loop: ParseFS or ExecuteTemplate may fail, and then the
\* error is returned before any client call
Send(p) ==
    /\ mw[p].pc \in {"idle", "done"}
    /\ mailRequests < MaxMailRequests
    /\ mailRequests' = mailRequests + 1
    /\ \E rendered \in BOOLEAN :
          mw' = [mw EXCEPT ![p] =
                    [IdleMw EXCEPT !.rendered = rendered,
                                   !.pc = IF rendered THEN "loop" ELSE "done",
                                   !.err = IF rendered THEN Nil ELSE "TemplateError"]]
    /\ UNCHANGED exceptMailer

\* a loop that goes round once more than it has tries
LoopContinuesOnceMore(i) == i <= MaxRetries

\* the loop condition: i < MaxRetries
LoopContinues(i) == i < MaxRetries

\* one turn of the loop: m.client.Send returns an error, and the turn goes
\* on to sleep, or it returns none, and Send returns nil
clientSend(p) ==
    /\ mw[p].pc = "loop"
    /\ LoopContinues(mw[p].i)
    /\ \E failed \in BOOLEAN :
          mw' = [mw EXCEPT
                    ![p].results = Append(@, IF failed THEN "err" ELSE "ok"),
                    ![p].pc = IF failed THEN "sleep" ELSE "done",
                    ![p].err = Nil]
    /\ UNCHANGED mailRequests
    /\ UNCHANGED exceptMailer

\* time.Sleep has returned: continue with i++
backoff(p) ==
    /\ mw[p].pc = "sleep"
    /\ mw' = [mw EXCEPT ![p].pc = "loop", ![p].i = @ + 1]
    /\ UNCHANGED mailRequests
    /\ UNCHANGED exceptMailer

\* the loop condition is false: Send returns its error
sendFailed(p) ==
    /\ mw[p].pc = "loop"
    /\ ~LoopContinues(mw[p].i)
    /\ mw' = [mw EXCEPT ![p].pc = "done", ![p].err = "Failed to send email"]
    /\ UNCHANGED mailRequests
    /\ UNCHANGED exceptMailer

NextMailer ==
    \E p \in Workers :
        \/ Send(p)
        \/ clientSend(p)
        \/ backoff(p)
        \/ sendFailed(p)

Init ==
    /\ InitPosts /\ InitUsers /\ InitFollow /\ InitCache /\ InitLimiter
    /\ InitFeed /\ InitTokens /\ InitMailer

\* the state the follow requests start from: the users are there and active
InitFollowing ==
    /\ InitPosts
    /\ InitTokens
    /\ InitMailer
    /\ InitLimiter
    /\ InitFeed
    /\ InitFollow
    /\ InitCache
    /\ users = ActiveUsers
    /\ invitations = {}
    /\ usersSeq = MaxUsers
    /\ uuidSeq = MaxUsers
    /\ now = 0
    /\ uw = [p \in Workers |-> IdleUw]
    /\ userRequests = 0
    /\ failures = 0
    /\ spent = 1 .. MaxUsers
    /\ refused = {}

SpecPosts == Init /\ [][NextPosts]_vars
SpecUsers == Init /\ [][NextUsers]_vars
SpecFollow == InitFollowing /\ [][NextFollow]_vars
SpecRemovals == InitFollowing /\ [][NextFollow \/ NextDeletes]_vars
SpecCache == InitFollowing /\ [][NextCache]_vars
SpecLimiter == Init /\ [][NextLimiter]_vars

\* the states the feed is read in: any posts of the current user and of the
\* other users, created one after the other, and any follows of the current user
InitFeeding ==
    /\ InitPosts
    /\ InitTokens
    /\ InitMailer
    /\ InitLimiter
    /\ InitCache
    /\ users = ActiveUsers
    /\ invitations = {}
    /\ usersSeq = MaxUsers
    /\ uuidSeq = MaxUsers
    /\ now = 0
    /\ uw = [p \in Workers |-> IdleUw]
    /\ userRequests = 0
    /\ failures = 0
    /\ spent = 1 .. MaxUsers
    /\ refused = {}
    /\ followers \in [UserIds -> {0, 1}]
    /\ fw = [p \in Workers |-> IdleFw]
    /\ followRequests = 0
    /\ postRows \in {rows \in [FeedPostIds -> FeedRows] :
                        \A i, j \in FeedPostIds :
                            i # j => rows[i].created_at # rows[j].created_at}
    /\ comments = [id \in FeedPostIds |-> 0]
    /\ fr = [p \in Workers |-> IdleFr]
    /\ feedRequests = 0

SpecFeed == InitFeeding /\ [][NextFeed]_vars

\* the states a feed with comments is read in: posts of any authors, any
\* follows of the current user and any number of comments on each post
InitCommented ==
    /\ InitPosts
    /\ InitTokens
    /\ InitMailer
    /\ InitLimiter
    /\ InitCache
    /\ users = ActiveUsers
    /\ invitations = {}
    /\ usersSeq = MaxUsers
    /\ uuidSeq = MaxUsers
    /\ now = 0
    /\ uw = [p \in Workers |-> IdleUw]
    /\ userRequests = 0
    /\ failures = 0
    /\ spent = 1 .. MaxUsers
    /\ refused = {}
    /\ followers \in [UserIds -> {0, 1}]
    /\ fw = [p \in Workers |-> IdleFw]
    /\ followRequests = 0
    /\ postRows \in {rows \in [FeedPostIds -> FeedRows] :
                        \A i \in FeedPostIds :
                            /\ rows[i].created_at = i
                            /\ rows[i].tags = {}
                            /\ rows[i].title = "a"}
    /\ comments \in [FeedPostIds -> 0 .. MaxComments]
    /\ fr = [p \in Workers |-> IdleFr]
    /\ feedRequests = 0

SpecFeedComments == InitCommented /\ [][NextFeed]_vars

\* the states token requests come in: any users stored, active or not
InitRegistered ==
    /\ InitPosts
    /\ InitLimiter
    /\ InitFeed
    /\ InitFollow
    /\ InitCache
    /\ InitTokens
    /\ InitMailer
    /\ users \in StoredUsers
    /\ invitations = {}
    /\ usersSeq = MaxUsers
    /\ uuidSeq = MaxUsers
    /\ now = 0
    /\ uw = [p \in Workers |-> IdleUw]
    /\ userRequests = 0
    /\ failures = 0
    /\ spent = {}
    /\ refused = {}

SpecTokens == InitRegistered /\ [][NextTokens]_vars

\* a Send that was called runs on: its goroutine is scheduled, the client's
\* call and the sleep return
SpecMailerFair ==
    /\ Init /\ [][NextMailer]_vars
    /\ \A p \in Workers : WF_vars(clientSend(p) \/ backoff(p) \/ sendFailed(p))

\* -------------------------------------------------------------- properties
\* the calls of two workers that both loaded the same version of the same
\* post and have both returned from UpdateById
Raced(p, q) ==
    /\ p # q
    /\ pw[p].pc = "respond" /\ pw[q].pc = "respond"
    /\ pw[p].post.id = pw[q].post.id
    /\ pw[p].expected = pw[q].expected

\* C1: of two updaters that read the same version of a post and both call
\* UpdateById with it, exactly one is told it succeeded and the other gets
\* an error; never are both updates reported as successful
C1_OneWinner ==
    \A p, q \in Workers :
        Raced(p, q) =>
            \/ pw[p].err = Nil /\ pw[q].err # Nil
            \/ pw[p].err # Nil /\ pw[q].err = Nil

\* C2: the stored version of a post is its initial version plus the number
\* of UpdateById calls on it that returned success
C2_VersionCountsSuccesses ==
    \A id \in DOMAIN posts : posts[id].version = InitVersion + nilReturns[id]

\* worker p's unit of work has returned and withTx ends in this step
Finishes(p, call) ==
    uw[p].pc = "finish" /\ uw[p].call = call /\ uw'[p].pc # "finish"

InvitationsOf(rows, id) == {ui \in rows : ui.user_id = id}

\* C3: withTx commits exactly when the unit of work returns nil; when it
\* returns an error the transaction is rolled back, that same error is
\* returned, the tables are as before and the function ran once
C3_WithTxAllOrNothing ==
    [][\A p \in Workers :
         uw[p].pc = "finish" /\ uw'[p].pc # "finish" =>
            /\ (uw'[p].outcome = "rollback") <=> (uw[p].fnErr # Nil)
            /\ uw[p].fnErr # Nil =>
                 /\ uw'[p].err = uw[p].fnErr
                 /\ users' = users /\ invitations' = invitations
                 /\ uw[p].fnCalls = 1
            /\ uw[p].fnErr = Nil =>
                 /\ uw'[p].outcome \in {"commit", "commit failed"}
                 /\ uw'[p].outcome = "commit" =>
                      /\ uw'[p].err = Nil
                      /\ users' = UsersView(p) /\ invitations' = InvView(p)
                 /\ uw'[p].outcome = "commit failed" =>
                      /\ uw'[p].err # Nil
                      /\ users' = users /\ invitations' = invitations]_vars

\* a unit of work that had written rows was rolled back
C3_Witness ==
    \E p \in Workers :
        uw[p].pc = "done" /\ uw[p].outcome = "rollback" /\ uw[p].wrote

\* C4: when CreateAndInvite returns, the new user row and exactly one
\* invitation row for its id were stored, or nothing was; with an email
\* already in the table it returns ErrDuplicateEmail, and an Activate with
\* the token of a refused registration never succeeds
C4_CreateAndInviteAtomic ==
    /\ [][\A p \in Workers :
            Finishes(p, "CreateAndInvite") =>
               IF uw'[p].err = Nil
               THEN /\ \E u \in users' \ users :
                         /\ users' = users \cup {u}
                         /\ u.id = uw[p].id /\ u.email = uw[p].email
                    /\ invitations' \ invitations =
                         {ui \in invitations' :
                             ui.user_id = uw[p].id /\ ui.token = Hash(uw[p].token)}
                    /\ Cardinality(InvitationsOf(invitations', uw[p].id)) = 1
                    /\ invitations \subseteq invitations'
               ELSE users' = users /\ invitations' = invitations]_vars
    /\ [](\A p \in Workers :
            /\ uw[p].pc = "done" /\ uw[p].req = "register" /\ uw[p].dupEmail =>
                 /\ uw[p].err = ErrDuplicateEmail
                 /\ uw[p].token \in refused
                 /\ \A ui \in invitations : ui.token # Hash(uw[p].token)
            /\ uw[p].pc = "done" /\ uw[p].req = "activate"
                 /\ uw[p].token \in refused => uw[p].err # Nil)

\* a registration with a used email was refused and an Activate with its
\* token then failed
C4_Witness ==
    \E p, q \in Workers :
        /\ uw[p].pc = "done" /\ uw[p].req = "register" /\ uw[p].dupEmail
        /\ uw[q].pc = "done" /\ uw[q].req = "activate"
        /\ uw[q].token = uw[p].token /\ uw[q].err = ErrNotFound

\* C5: when Activate returns nil the user owning the invitation is active
\* and the invitation is gone; when it returns an error the users and
\* invitations tables are as before
C5_ActivateAllOrNothing ==
    [][\A p \in Workers :
         Finishes(p, "Activate") =>
            IF uw'[p].err = Nil
            THEN /\ \E u \in users' : u.id = uw[p].id /\ u.is_active
                 /\ InvitationsOf(invitations', uw[p].id) = {}
            ELSE users' = users /\ invitations' = invitations]_vars

\* C6: a user has at most one invitation and is active exactly when it has
\* none; an Activate entered after its token was used returns ErrNotFound
\* (a driver error if the store failed, never nil); an active user stays
\* active
C6_InvitationLifecycle ==
    /\ [](\A u \in users :
            /\ Cardinality(InvitationsOf(invitations, u.id)) <= 1
            /\ u.is_active <=> InvitationsOf(invitations, u.id) = {})
    /\ [](\A p \in Workers :
            uw[p].pc = "done" /\ uw[p].req = "activate" /\ uw[p].late =>
               uw[p].err \in {ErrNotFound, StoreError})
    /\ [][\A u \in users : u.is_active =>
             \A v \in users' : v.id = u.id => v.is_active]_vars

\* a token was used and a later Activate with it was told ErrNotFound, the
\* user being active
C6_Witness ==
    \E p \in Workers :
        /\ uw[p].pc = "done" /\ uw[p].req = "activate" /\ uw[p].late
        /\ uw[p].err = ErrNotFound
        /\ \E u \in users : u.is_active

\* C7: when the mailer fails after CreateAndInvite succeeded, the handler
\* calls Delete for the new user before it responds, the response is an
\* error and never 201, and when that Delete returns nil neither the user
\* row nor an invitation row of that user is left
C7_CompensatingDelete ==
    /\ [](\A p \in Workers :
            uw[p].pc = "done" /\ uw[p].req = "register" =>
               /\ uw[p].mailErr # Nil =>
                     uw[p].call = "Delete" /\ uw[p].status = 500
               /\ uw[p].status = 201 =>
                     uw[p].mailErr = Nil /\ uw[p].call = "CreateAndInvite")
    /\ [][\A p \in Workers :
            Finishes(p, "Delete") /\ uw[p].req = "register"
               /\ uw'[p].err = Nil =>
                  /\ \A u \in users' : u.id # uw[p].id
                  /\ InvitationsOf(invitations', uw[p].id) = {}]_vars

\* the mailer failed, the compensating Delete returned nil and the user
\* the registration had stored is gone
C7_Witness ==
    \E p \in Workers :
        /\ uw[p].pc = "done" /\ uw[p].req = "register" /\ uw[p].mailErr # Nil
        /\ uw[p].call = "Delete" /\ uw[p].err = Nil /\ uw[p].wrote
        /\ \A u \in users : u.id # uw[p].id

\* C8: Delete for an id that matches no user row returns ErrNotFound
C8_DeleteMissingIsNotFound ==
    \A p \in Workers :
        uw[p].pc = "done" /\ uw[p].call = "Delete" /\ uw[p].absent
           /\ uw[p].outcome = "commit" => uw[p].err = ErrNotFound

\* C9: Unfollow returns nil only when it removed an edge that was there; on
\* an edge that is not there it returns ErrNotFound (a driver error if the
\* store failed) and the follower relation stays as it was. DeleteById for
\* an id without a row returns ErrNotFound and leaves the posts as they were
C9_RemovingNothingIsNotFound ==
    /\ [](\A p \in Workers :
            fw[p].pc = "done" /\ fw[p].req = "Unfollow" =>
               /\ fw[p].err = Nil => fw[p].present
               /\ ~fw[p].present => fw[p].err \in {ErrNotFound, StoreError})
    /\ [][\A p \in Workers :
            fw[p].pc = "Unfollow" /\ fw'[p].pc = "done" =>
               IF fw'[p].err = Nil
               THEN /\ followers[fw[p].id] = 1
                    /\ followers' = [followers EXCEPT ![fw[p].id] = 0]
               ELSE followers[fw[p].id] = 0 => followers' = followers]_vars
    /\ [][\A p \in Workers :
            /\ pw[p].pc = "handler" /\ pw'[p].pc = "deleted"
            /\ pw[p].post.id \notin DOMAIN posts
            => /\ pw'[p].err \in {ErrNotFound, StoreError}
               /\ posts' = posts]_vars

\* an Unfollow removed an edge and its repetition was told ErrNotFound, and
\* a DeleteById found its post already deleted
C9_Witness ==
    /\ \E p, q \in Workers :
          /\ fw[p].pc = "done" /\ fw[p].req = "Unfollow" /\ fw[p].err = Nil
          /\ fw[q].pc = "done" /\ fw[q].req = "Unfollow" /\ fw[q].id = fw[p].id
          /\ ~fw[q].present /\ fw[q].err = ErrNotFound
          /\ followers[fw[q].id] = 0
    /\ \E p \in Workers :
          /\ pw[p].pc = "deleted" /\ pw[p].err = ErrNotFound
          /\ pw[p].post.id \notin DOMAIN posts

\* two Follow calls for the same pair, both returned, that were in flight
\* together while the pair was absent
RacedFollows(p, q) ==
    /\ p # q
    /\ fw[p].pc = "done" /\ fw[p].req = "Follow" /\ fw[p].raced
    /\ fw[q].pc = "done" /\ fw[q].req = "Follow" /\ fw[q].raced
    /\ fw[p].id = fw[q].id

\* C10: the follower relation holds each pair at most once; a Follow for a
\* pair that is there returns ErrConflict (a driver error if the store
\* failed) and changes nothing; of two concurrent Follow calls for the same
\* absent pair never both return nil, and when the store answered both, one
\* returns nil and the other ErrConflict
C10_NoDuplicateEdge ==
    /\ [](\A id \in DOMAIN followers : followers[id] <= 1)
    /\ [](\A p \in Workers :
            fw[p].pc = "done" /\ fw[p].req = "Follow" =>
               /\ fw[p].present => fw[p].err \in {ErrConflict, StoreError}
               /\ fw[p].err = ErrConflict => fw[p].present /\ fw[p].status = 409)
    /\ [][\A p \in Workers :
            fw[p].pc = "Follow" /\ fw'[p].pc = "done" =>
               IF fw'[p].err = Nil
               THEN followers' = [followers EXCEPT ![fw[p].id] = 1]
               ELSE followers' = followers]_vars
    /\ [](\A p, q \in Workers :
            RacedFollows(p, q) =>
               /\ ~(fw[p].err = Nil /\ fw[q].err = Nil)
               /\ StoreError \notin {fw[p].err, fw[q].err} =>
                     {fw[p].err, fw[q].err} = {Nil, ErrConflict})

\* two concurrent Follow calls for an absent pair returned, one nil and one
\* ErrConflict, and the pair is stored once
C10_Witness ==
    \E p, q \in Workers :
        /\ RacedFollows(p, q)
        /\ fw[p].err = Nil /\ fw[q].err = ErrConflict
        /\ followers[fw[p].id] = 1

\* C11: a Get that finds the key of a user set before and not yet expired
\* returns that user, a hit, and the read needs no store query
C11_CacheRoundTrip ==
    \A p \in Workers :
        cr[p].present =>
           /\ cr[p].got = "hit"
           /\ cr[p].user.id = cr[p].id
           /\ \A i \in 1 .. Len(cr[p].ops) : cr[p].ops[i] # "GetById"

C13_CacheFailureNeverFailsRead ==
    \A p \in Workers :
        /\ cr[p].pc = "done" /\ cr[p].inStore /\ cr[p].err # StoreError =>
              cr[p].err = Nil /\ cr[p].user.id = cr[p].id
        /\ cr[p].pc = "done" /\ cr[p].err = ErrNotFound =>
              ~cr[p].inStore /\ cr[p].ops = <<"Get", "GetById">>
        /\ cr[p].got # "none" /\ ~cr[p].present /\ ~cr[p].getErr =>
              cr[p].got = "miss"
        /\ cr[p].getErr => cr[p].got = "error"

\* both cache calls of a read failed and the read returned the user
C13_Witness ==
    \E p \in Workers :
        /\ cr[p].pc = "done" /\ cr[p].getErr /\ cr[p].setErr
        /\ cr[p].err = Nil /\ cr[p].user.id = cr[p].id /\ cr[p].id \in UserIds

\* C14: every cache entry is written with an expiry of UserExpTime after its
\* write, and a read begun more than UserExpTime after a user's row was
\* deleted does not return the deleted user
C14_StalenessBoundedByTTL ==
    /\ \A id \in CacheKeys :
          rdb[id].set =>
             /\ rdb[id].expires = rdb[id].setAt + UserExpTime
             /\ rdb[id].setAt <= ctime
    /\ \A p \in Workers :
          cr[p].pc = "done" /\ cr[p].late =>
             cr[p].err # Nil /\ cr[p].user = NoStoreUser

\* a user was cached and then deleted; a read begun after the entry's time
\* to live found the entry expired and the user gone
C14_Witness ==
    \E p \in Workers :
        /\ cr[p].pc = "done" /\ cr[p].late /\ cr[p].err = ErrNotFound
        /\ rdb[cr[p].id].set /\ ~Live(rdb[cr[p].id], ctime)
        /\ rdb[cr[p].id].setAt <= deletedAt[cr[p].id]

\* the admitted requests of key k that were counted in the window begun at s
AdmittedIn(k, s) ==
    {i \in 1 .. Len(trace) :
        trace[i].key = k /\ trace[i].allowed /\ trace[i].start = s}

\* C15: a request for a key without state, or past the end of the key's
\* window, is admitted and starts a window with counter 1; inside a window
\* a request is admitted while the counter is below the budget and denied
\* once the budget is used; no window admits more than the budget
C15_FixedWindow ==
    /\ [](\A k \in CallerKeys : \A s \in 0 .. MaxLimiterTime :
             Cardinality(AdmittedIn(k, s)) <= RequestsPerTimeFrame)
    /\ [][\A p \in Workers :
             Allow(p) =>
                LET c == clients[lr[p].key]
                    d == clients'[lr[p].key]
                    inWindow == c.exists /\ ltime <= c.start + TimeFrame
                IN /\ ~inWindow =>
                         /\ lr'[p].allowed
                         /\ d = [exists |-> TRUE, count |-> 1, start |-> ltime]
                   /\ inWindow /\ c.count < RequestsPerTimeFrame =>
                         /\ lr'[p].allowed
                         /\ d = [c EXCEPT !.count = c.count + 1]
                   /\ inWindow /\ c.count >= RequestsPerTimeFrame =>
                         ~lr'[p].allowed]_vars

\* one key used its budget at times 0 and 1, was denied at time 2 and was
\* admitted into a fresh window at time 3
C15_Witness ==
    \E k \in CallerKeys :
        /\ trace = << [key |-> k, at |-> 0, allowed |-> TRUE, start |-> 0],
                      [key |-> k, at |-> 1, allowed |-> TRUE, start |-> 0],
                      [key |-> k, at |-> 2, allowed |-> FALSE, start |-> 0],
                      [key |-> k, at |-> 3, allowed |-> TRUE, start |-> 3] >>
        /\ clients[k] = [exists |-> TRUE, count |-> 1, start |-> 3]

\* C16: a denial leaves the limiter's map as it was, counter and window
\* start of every key; the limiter is asked before the handler runs, and a
\* denied request never reaches its handler
C16_DeniedHasNoEffect ==
    /\ [](\A p \in Workers :
             /\ lr[p].ops # <<>> => lr[p].ops[1] = "Allow"
             /\ lr[p].pc \in {"denied", "done"} /\ ~lr[p].allowed =>
                    lr[p].ops = <<"Allow">>
             /\ lr[p].status = 429 => ~lr[p].allowed)
    /\ [](served + Cardinality({p \in Workers : lr[p].pc = "next"})
             = Cardinality({i \in 1 .. Len(trace) : trace[i].allowed}))
    /\ [][\A p \in Workers :
             Allow(p) /\ ~lr'[p].allowed =>
                clients' = clients /\ served' = served]_vars
    /\ [][\A p \in Workers :
             rateLimitExceededResponse(p) =>
                clients' = clients /\ served' = served]_vars

\* a request was denied and answered 429 while its key's budget was used
C16_Witness ==
    \E p \in Workers :
        /\ lr[p].pc = "done" /\ lr[p].status = 429
        /\ lr[p].ops = <<"Allow">>
        /\ clients[lr[p].key].count = RequestsPerTimeFrame
        /\ served = RequestsPerTimeFrame

\* C17: one worker at a time decides; the counter of a key equals the
\* number of requests admitted in the key's current window, and no window
\* admits more than the budget
C17_LimiterAtomic ==
    /\ Cardinality({p \in Workers : lr[p].pc = "Allow"}) <= 1
    /\ \A k \in CallerKeys :
          clients[k].exists =>
             clients[k].count = Cardinality(AdmittedIn(k, clients[k].start))
    /\ \A k \in CallerKeys : \A s \in 0 .. MaxLimiterTime :
          Cardinality(AdmittedIn(k, s)) <= RequestsPerTimeFrame

\* two workers asked for the same key at the same time with one admission
\* left in its window: one was admitted, the other denied
C17_Witness ==
    \E p \in Workers : \E q \in Workers \ {p} :
        /\ lr[p].raced /\ lr[p].key = lr[q].key
        /\ lr[p].pc = "done" /\ lr[q].pc = "done"
        /\ lr[p].at = lr[q].at
        /\ lr[p].allowed # lr[q].allowed
        /\ clients[lr[p].key].count = RequestsPerTimeFrame

\* C18: a feed that was answered is the requested page of the posts of the
\* user and of the users the user follows, each once, in the requested
\* order of creation time
C18_FeedIsOwnAndFollowed ==
    LET FeedOf(userId) ==
            {id \in DOMAIN postRows :
                \/ postRows[id].user_id = userId
                \/ \E f \in FollowerRows :
                      /\ f.follower_id = userId
                      /\ f.user_id = postRows[id].user_id}
    IN \A p \in Workers :
          fr[p].status = 200 =>
             fr[p].feed = LimitOffset(OrderBy(FeedOf(CurrentUserId),
                                              fr[p].pfq.Sort),
                                      fr[p].pfq.Limit, fr[p].pfq.Offset)

\* C19: the sort direction in the text of a feed query is asc or desc; a
\* request with any other sort parameter is answered 400 and runs no query
C19_OnlyKnownSortReachesQuery ==
    \A p \in Workers :
        /\ fr[p].sortText # NoQuery => fr[p].sortText \in {"asc", "desc"}
        /\ fr[p].pc = "GetUserFeed" => fr[p].pfq.Sort \in {"asc", "desc"}
        /\ fr[p].pc = "done" /\ fr[p].q.sort \notin {"", "asc", "desc"} =>
              /\ fr[p].status = 400
              /\ fr[p].sortText = NoQuery
              /\ fr[p].feed = <<>>

\* a request with an unknown sort parameter was refused before the query
C19_Witness ==
    \E p \in Workers :
        /\ fr[p].pc = "done" /\ fr[p].q.sort = "created_at"
        /\ fr[p].q.limit = "" /\ fr[p].status = 400
        /\ fr[p].sortText = NoQuery

\* C20: a feed that was answered is the requested page of those posts of
\* the feed query that pass the filters of the query specification: they
\* have one of the tags, match the search text and were created inside the
\* time range
C20_FeedHonoursFilters ==
    LET Satisfies(id, pfq) ==
            /\ pfq.Tags # {} => postRows[id].tags \cap pfq.Tags # {}
            /\ pfq.Search # "" => postRows[id].title = pfq.Search
            /\ pfq.Since # "" => postRows[id].created_at >= Atoi(pfq.Since).n
            /\ pfq.Until # "" => postRows[id].created_at <= Atoi(pfq.Until).n
    IN \A p \in Workers :
          fr[p].status = 200 =>
             fr[p].feed =
                LimitOffset(OrderBy({id \in FeedJoin(CurrentUserId) :
                                        Satisfies(id, fr[p].pfq)},
                                    fr[p].pfq.Sort),
                            fr[p].pfq.Limit, fr[p].pfq.Offset)

\* C21: GetById and GetByEmail find no user that is stored and not active,
\* and when Activate has returned nil both find the user of the invitation
C21_InvisibleUntilActive ==
    /\ [](\A u \in users :
            ~u.is_active =>
               UsersGetById(u.id) = {} /\ UsersGetByEmail(u.email) = {})
    /\ [][\A p \in Workers :
            Finishes(p, "Activate") /\ uw'[p].err = Nil =>
               \E u \in (UsersGetById(uw[p].id))' :
                   u \in (UsersGetByEmail(u.email))']_vars

\* C22: no two stored users share an email or a username; a Create whose
\* email or username a stored user has returns the error of that rule, and
\* a CreateAndInvite that ends so returns it with nothing stored
C22_UniqueUnderConcurrency ==
    /\ [](\A u, v \in users :
            u # v => u.email # v.email /\ u.username # v.username)
    /\ [][\A p \in Workers :
            Create(p) =>
               LET byEmail == \E r \in users : r.email = uw[p].email
                   byName == \E r \in users : r.username = uw[p].username
               IN /\ byEmail \/ byName =>
                        /\ uw'[p].pc = "finish"
                        /\ uw'[p].fnErr \in {ErrDuplicateEmail,
                                              ErrDuplicateUsername, StoreError}
                  /\ byEmail /\ ~byName =>
                        uw'[p].fnErr \in {ErrDuplicateEmail, StoreError}
                  /\ byName /\ ~byEmail =>
                        uw'[p].fnErr \in {ErrDuplicateUsername, StoreError}]_vars
    /\ [][\A p \in Workers :
            /\ Finishes(p, "CreateAndInvite")
            /\ uw[p].fnErr \in {ErrDuplicateEmail, ErrDuplicateUsername}
            => /\ uw'[p].err = uw[p].fnErr
               /\ users' = users /\ invitations' = invitations]_vars

\* of two registrations with one email the later one committed first and
\* the earlier one was then told ErrDuplicateEmail
C22_Witness ==
    \E p \in Workers : \E q \in Workers \ {p} :
        /\ uw[p].req = "register" /\ uw[p].call = "CreateAndInvite"
        /\ uw[p].pc = "mail" /\ uw[p].err = Nil
        /\ uw[q].req = "register" /\ uw[q].pc = "done"
        /\ uw[q].err = ErrDuplicateEmail /\ uw[q].dupEmail
        /\ uw[q].token < uw[p].token
        /\ Cardinality(users) = 1 /\ Cardinality(invitations) = 1

\* C23: a registration that CreateAndInvite refused with ErrDuplicateEmail
\* or ErrDuplicateUsername is answered with one error response, a 400 or a
\* 409, never a success status and never nothing
C23_ConflictIsAnswered ==
    \A p \in Workers :
        /\ uw[p].pc = "done" /\ uw[p].req = "register"
        /\ uw[p].call = "CreateAndInvite"
        /\ uw[p].err \in {ErrDuplicateEmail, ErrDuplicateUsername}
        => uw[p].written = 1 /\ uw[p].status \in {400, 409}

\* C24: an UpdateById that returns nil has updated the row of its post:
\* the stored version went up by one in that step
C24_NilMeansUpdated ==
    [][\A p \in Workers :
         UpdateById(p) /\ pw'[p].err = Nil =>
            /\ pw[p].post.id \in DOMAIN posts
            /\ posts'[pw[p].post.id].version
                  = posts[pw[p].post.id].version + 1]_vars

\* C26: an Activate that failed with ErrNotFound is answered 404
C26_NotFoundIsAnswered404 ==
    \A p \in Workers :
        uw[p].pc = "done" /\ uw[p].req = "activate" /\ uw[p].err = ErrNotFound
        => uw[p].status = 404

\* C27: a follow or unfollow request that has ended has written exactly
\* one response
C27_ExactlyOneResponse ==
    \A p \in Workers :
        fw[p].pc \in {"done", "rejected"} => fw[p].written = 1

\* C25: every post of an answered feed carries the number of comment rows
\* of that post, however many accounts the user follows and whoever wrote it
C25_TrueCommentCount ==
    \A p \in Workers :
        fr[p].status = 200 =>
           \A i \in 1 .. Len(fr[p].feed) :
               fr[p].counts[i] = comments[fr[p].feed[i]]

\* C28: an update that is stored sets the title to the payload's title and
\* the content to the payload's content, a field the payload does not have
\* keeps its stored value, and no payload makes the handler panic
C28_OnlySuppliedFieldsChange ==
    /\ [](\A p \in Workers : pw[p].err # "panic")
    /\ [][\A p \in Workers :
            UpdateById(p) /\ posts' # posts =>
               LET id == pw[p].post.id
                   payload == pw[p].payload
               IN /\ posts'[id].title =
                        IF payload.title # NoField THEN payload.title
                        ELSE posts[id].title
                  /\ posts'[id].content =
                        IF payload.content # NoField THEN payload.content
                        ELSE posts[id].content]_vars

\* C29: a request with the email of an active user and a password that is
\* not that user's gets no token: whenever the store answered, it is
\* answered 401
C29_TokenNeedsPassword ==
    \A p \in Workers :
        /\ tw[p].pc = "done"
        /\ tw[p].password # NoField
        /\ \E u \in UsersGetByEmail(tw[p].email) :
               tw[p].password # PasswordOf(u.id)
        => /\ tw[p].token = NoToken
           /\ tw[p].status \in {401, 500}
           /\ tw[p].err # StoreError => tw[p].status = 401

\* C30: a Send that was called returns, after at most MaxRetries client
\* calls; every call before the last one failed, a call that returned no
\* error is the last one and Send returns nil after it, and Send returns an
\* error exactly when the templates failed to render, before any call, or
\* all MaxRetries calls failed
C30_SendTerminates ==
    /\ [](\A p \in Workers :
            LET results == mw[p].results
                n == Len(results)
            IN /\ n <= MaxRetries
               /\ \A k \in 1 .. n - 1 : results[k] = "err"
               /\ n > 0 /\ results[n] = "ok" =>
                     mw[p].pc = "done" /\ mw[p].err = Nil
               /\ mw[p].pc = "done" =>
                     /\ mw[p].err = Nil <=> n > 0 /\ results[n] = "ok"
                     /\ mw[p].err # Nil <=>
                           \/ ~mw[p].rendered /\ n = 0
                           \/ /\ mw[p].rendered
                              /\ n = MaxRetries
                              /\ \A k \in 1 .. n : results[k] = "err")
    /\ \A p \in Workers :
          mw[p].pc \in {"loop", "sleep"} ~> mw[p].pc = "done"

\* a Send returned nil with its second call, after the first one failed
C30_Witness ==
    \E p \in Workers :
        /\ mw[p].pc = "done"
        /\ mw[p].err = Nil
        /\ mw[p].results = <<"err", "ok">>

====
